---------------------------- MODULE Spec2Model ----------------------------
(***************************************************************************)
(* A model of src/polarity_app.py: PolarityDataProcessor.run, the pipeline *)
(* that reads DATA/FeederSetup.csv, filters and normalises its records and *)
(* lays out the "Polarity Check" workbook with one image per part number.  *)
(*                                                                         *)
(* Text is modelled as a sequence of one-character strings, so that strip, *)
(* upper, lower, split, startswith and int() are computed character by     *)
(* character as Python computes them.  What the csv module returns (the    *)
(* list of rows of cells) and what the directory listing returns are the   *)
(* inputs of the model; they are drawn from the bounded sets below.        *)
(***************************************************************************)
EXTENDS Integers, Sequences, FiniteSets, TLC

(***************************************************************************)
(* Bounds of the model.                                                    *)
(***************************************************************************)
\* the longest data section (rows after the column-header row) of a source table
MaxDataRows == 3
\* the longest QTY cell and the longest shape name of the one-record tables
MaxQtyLen == 3
MaxShapeLen == 4

(***************************************************************************)
(* Python str operations, on sequences of characters.                      *)
(***************************************************************************)
Range(s) == { s[i] : i \in DOMAIN s }

\* index of the first occurrence of c in s, 0 when absent (str.find + 1)
IndexOf(c, s) ==
  IF \E i \in DOMAIN s : s[i] = c
    THEN CHOOSE i \in DOMAIN s : s[i] = c /\ \A j \in 1..(i-1) : s[j] # c
    ELSE 0

IsSpace(c) == c \in {" ", "\t"}

RECURSIVE LStrip(_)
LStrip(s) ==
  IF s = <<>> THEN s
  ELSE IF IsSpace(Head(s)) THEN LStrip(Tail(s)) ELSE s

RECURSIVE RStrip(_)
RStrip(s) ==
  IF s = <<>> THEN s
  ELSE IF IsSpace(s[Len(s)]) THEN RStrip(SubSeq(s, 1, Len(s) - 1)) ELSE s

\* str.strip()
Strip(s) == RStrip(LStrip(s))

\* str.rstrip(chars)
RECURSIVE RStripChars(_, _)
RStripChars(s, chars) ==
  IF s = <<>> THEN s
  ELSE IF s[Len(s)] \in chars THEN RStripChars(SubSeq(s, 1, Len(s) - 1), chars) ELSE s

\* str.strip(chars)
RECURSIVE LStripChars(_, _)
LStripChars(s, chars) ==
  IF s = <<>> THEN s
  ELSE IF Head(s) \in chars THEN LStripChars(Tail(s), chars) ELSE s

StripChars(s, chars) == RStripChars(LStripChars(s, chars), chars)

LowerLetters == <<"a","b","c","d","e","f","g","h","i","j","k","l","m","n","o","p","q","r","s","t","u","v","w","x","y","z">>
UpperLetters == <<"A","B","C","D","E","F","G","H","I","J","K","L","M","N","O","P","Q","R","S","T","U","V","W","X","Y","Z">>

UpperChar(c) ==
  LET i == IndexOf(c, LowerLetters) IN IF i = 0 THEN c ELSE UpperLetters[i]

LowerChar(c) ==
  LET i == IndexOf(c, UpperLetters) IN IF i = 0 THEN c ELSE LowerLetters[i]

\* str.upper() and str.lower()
Upper(s) == [i \in DOMAIN s |-> UpperChar(s[i])]
Lower(s) == [i \in DOMAIN s |-> LowerChar(s[i])]

\* str.startswith(p)
StartsWith(s, p) == Len(s) >= Len(p) /\ SubSeq(s, 1, Len(p)) = p

\* str.split(sep) for a one-character separator
RECURSIVE Split(_, _)
Split(s, sep) ==
  LET i == IndexOf(sep, s) IN
    IF i = 0 THEN <<s>>
    ELSE <<SubSeq(s, 1, i - 1)>> \o Split(SubSeq(s, i + 1, Len(s)), sep)

\* str.replace(c, "") for a one-character c
Remove(s, c) == SelectSeq(s, LAMBDA x : x # c)

\* string concatenation of a sequence of strings
RECURSIVE Concat(_)
Concat(ss) == IF ss = <<>> THEN <<>> ELSE Head(ss) \o Concat(Tail(ss))

Digits == <<"0","1","2","3","4","5","6","7","8","9">>
IsDigit(c) == IndexOf(c, Digits) # 0
DigitVal(c) == IndexOf(c, Digits) - 1

RECURSIVE DigitsValue(_, _)
DigitsValue(s, acc) ==
  IF s = <<>> THEN acc
  ELSE IF Head(s) = "_" THEN DigitsValue(Tail(s), acc)
  ELSE DigitsValue(Tail(s), 10 * acc + DigitVal(Head(s)))

\* int(s), base 10: surrounding whitespace, an optional sign, then digits with
\* single underscores allowed between digits.  ok = FALSE stands for ValueError.
ParseInt(s) ==
  LET t    == Strip(s)
      neg  == t # <<>> /\ Head(t) = "-"
      body == IF t # <<>> /\ Head(t) \in {"-", "+"} THEN Tail(t) ELSE t
      wellFormed ==
        /\ body # <<>>
        /\ \A i \in DOMAIN body : IsDigit(body[i]) \/ body[i] = "_"
        /\ IsDigit(body[1]) /\ IsDigit(body[Len(body)])
        /\ \A i \in 1..(Len(body) - 1) : ~(body[i] = "_" /\ body[i+1] = "_")
  IN  IF wellFormed
        THEN [ok |-> TRUE, val |-> IF neg THEN 0 - DigitsValue(body, 0) ELSE DigitsValue(body, 0)]
        ELSE [ok |-> FALSE, val |-> 0]

(***************************************************************************)
(* Module constants.                                                       *)
(***************************************************************************)
OUTPUT_COLUMNS ==
  << "Modulo", "Slot", "Part Number", "Package", "Program's Polarities",
     "Package's polarities", "Name of shape", "Coments or presentations changes" >>

K_ModuleNumber  == <<"M","o","d","u","l","e","N","u","m","b","e","r">>
K_SideNo        == <<"S","i","d","e","N","o">>
K_Location      == <<"L","o","c","a","t","i","o","n">>
K_PartNumber    == <<"P","a","r","t","N","u","m","b","e","r">>
K_PartComment   == <<"P","a","r","t","C","o","m","m","e","n","t">>
K_PackageName   == <<"P","a","c","k","a","g","e","N","a","m","e">>
K_PartShapeName == <<"P","a","r","t","S","h","a","p","e","N","a","m","e">>
K_FeederType    == <<"F","e","e","d","e","r","T","y","p","e">>
K_TapeWidth     == <<"T","a","p","e","W","i","d","t","h">>
K_FeedPitch     == <<"F","e","e","d","P","i","t","c","h">>
K_QTY           == <<"Q","T","Y">>

REQUIRED_FEEDER_COLUMNS ==
  << K_ModuleNumber, K_SideNo, K_Location, K_PartNumber, K_PartComment,
     K_PackageName, K_PartShapeName, K_FeederType, K_TapeWidth, K_FeedPitch, K_QTY >>

\* a variant of IMAGE_EXTENSIONS that tries .png before .bmp
IMAGE_EXTENSIONS_PngFirst == << <<".","p","n","g">>, <<".","b","m","p">>, <<".","j","p","g">>, <<".","j","p","e","g">> >>

\* line 308
IMAGE_EXTENSIONS == << <<".","b","m","p">>, <<".","p","n","g">>, <<".","j","p","g">>, <<".","j","p","e","g">> >>

DATA_DIR_NAMES   == << "DATA", "Data", "data" >>
IMAGES_DIR_NAMES == << "IMAGES", "Images", "images" >>

NoError == [cls |-> "none", msg |-> "none", missing |-> <<>>]
AppError(m) == [cls |-> "PolarityAppError", msg |-> m, missing |-> <<>>]
OtherError(m) == [cls |-> "Exception", msg |-> m, missing |-> <<>>]


(***************************************************************************)
(* Inputs: the root folder as the run finds it, and the tables the csv     *)
(* reader may return.                                                      *)
(***************************************************************************)
\* root folder names: "Job;Revision;Side" and a plain name
FolderNames == { <<"J","o","b","A",";"," ","R","1"," ",";","T","O","P">>, <<"l","i","n","e","7">> }

File(n) == [name |-> n, isfile |-> TRUE]
Dir(n)  == [name |-> n, isfile |-> FALSE]

NoDirs == [d \in {} |-> {}]

\* the images folders of the root: existing folder name -> its entries
ImageFolders ==
  { NoDirs,
    [d \in {"IMAGES"} |-> {}],
    [d \in {"IMAGES"} |-> { File(<<"P","1",".","p","n","g">>), File(<<"P","1",".","j","p","g">>), File(<<"P","2",".","j","p","e","g">>), File(<<"n","o","t","e","s",".","t","x","t">>) }],
    [d \in {"Images", "images"} |->
        IF d = "Images" THEN { Dir(<<"P","1",".","b","m","p">>), File(<<"P","1",".","j","p","e","g">>), File(<<"P","2",".","b","m","p">>), File(<<"P","2",".","p","n","g">>) }
        ELSE { File(<<"P","1",".","b","m","p">>) }] }

\* the data folders of the root: existing folder name -> FeederSetup.csv is a file in it
DataFolders ==
  { [d \in {} |-> FALSE],
    [d \in {"Data"} |-> TRUE],
    [d \in {"DATA", "data"} |-> d = "data"] }

\* rows 1 and 2 of the export: job labels and job values
JobRowPairs ==
  { << << <<"J","o","b">>, <<" ","L","i","n","e",":"," ">>, <<"R","e","v">> >>, << <<"J","1">>, <<" ","L","1"," ">>, <<"A">> >> >>,
    << << <<"J","o","b">>, <<"R","e","v">> >>,
       << <<"J","1">>, <<"A">>, <<>>, <<>>, <<>>, <<>>, <<>>, <<" ","H","2"," ">> >> >> }

\* row 3 of the export: all eleven required columns, in the order of
\* REQUIRED_FEEDER_COLUMNS, and in another order, padded, behind one more column
ValidHeaderRows ==
  { REQUIRED_FEEDER_COLUMNS,
    << <<"I","d">>, <<" ","Q","T","Y"," ">>, K_PartShapeName, K_ModuleNumber, K_SideNo, <<"L","o","c","a","t","i","o","n"," "," ">>,
       K_PartNumber, K_PartComment, K_PackageName, K_FeederType, K_TapeWidth, K_FeedPitch >> }

\* row 3 of the export with required columns missing: QTY; SideNo and TapeWidth
\* (and "qty" is not "QTY")
InvalidHeaderRows ==
  { << K_ModuleNumber, K_SideNo, K_Location, K_PartNumber, K_PartComment,
       K_PackageName, K_PartShapeName, K_FeederType, K_TapeWidth, K_FeedPitch >>,
    << K_ModuleNumber, K_Location, K_PartNumber, K_PartComment, <<"q","t","y">>,
       K_PackageName, K_PartShapeName, K_FeederType, K_FeedPitch, K_QTY >> }

\* a data row for the header row h: the cell under each required column, the
\* row number under any other
RowFor(h, module, sideNo, location, part, comment, package, shape, qty) ==
  [i \in DOMAIN h |->
     LET k == Strip(h[i]) IN
       CASE k = K_ModuleNumber  -> module
         [] k = K_SideNo        -> sideNo
         [] k = K_Location      -> location
         [] k = K_PartNumber    -> part
         [] k = K_PartComment   -> comment
         [] k = K_PackageName   -> package
         [] k = K_PartShapeName -> shape
         [] k = K_QTY           -> qty
         [] k \in { K_FeederType, K_TapeWidth, K_FeedPitch } -> <<"8">>
         [] OTHER               -> <<"n">>]

\* the data rows a long table is made of: QTY "0", QTY with blanks around it,
\* a negative QTY, an empty part number, and a blank row
CoreRows(h) ==
  { RowFor(h, <<"1">>, <<"1">>, <<"'","1","2">>, <<"P","1">>, <<"c","1">>, <<"0","4","0","2">>, <<"R","C","_","R","0","4","0","2">>, <<"0">>),
    RowFor(h, <<"1">>, <<"0">>, <<" ","3"," ">>, <<" ","P","1">>, <<>>, <<"S","O","I","C">>, <<"S","O","I","C","_","C","O","N","8">>, <<" ","3"," ">>),
    RowFor(h, <<"2">>, <<"1">>, <<"'","7">>, <<"P","2">>, <<"x">>, <<"0","6","0","3">>, <<"r","c","_","c","1">>, <<"-","1">>),
    RowFor(h, <<>>, <<"2">>, <<"4">>, <<>>, <<>>, <<>>, <<"A","B","C">>, <<"5">>),
    << <<>>, <<" "," ">>, <<>> >> }

\* the data rows a short table is made of: also a row that ends before the
\* last columns, and one with a cell more than the header row
DataRows(h) ==
  CoreRows(h) \cup
  { SubSeq(RowFor(h, <<"4">>, <<"1">>, <<"2">>, <<"P","2">>, <<>>, <<>>, <<>>, <<"7">>), 1, 4),
    Append(RowFor(h, <<"4">>, <<"1">>, <<"2">>, <<"P","3">>, <<>>, <<>>, <<"r","_","r">>, <<"7">>), <<"m","o","r","e">>) }

\* the sequences over S of length n, and of length at most n
RECURSIVE SeqsOfLen(_, _)
SeqsOfLen(S, n) ==
  IF n = 0 THEN { <<>> } ELSE { Append(s, x) : s \in SeqsOfLen(S, n - 1), x \in S }

SeqsUpTo(S, n) == UNION { SeqsOfLen(S, k) : k \in 0..n }

FirstJobRows == CHOOSE j \in JobRowPairs : Len(j[1]) = 3

\* what csv.reader returns: too few rows; job rows, a header row and at most one
\* data row; the first job rows, a valid header row and up to MaxDataRows rows
Tables ==
  { <<>>, << << <<"J","o","b">> >>, << <<"J","1">> >> >> }
  \cup UNION { { << j[1], j[2], h >> \o d : j \in JobRowPairs,
                                           d \in SeqsUpTo(DataRows(h), 1) }
               : h \in InvalidHeaderRows }
  \cup UNION { { << j[1], j[2], h >> \o d : j \in JobRowPairs \ {FirstJobRows},
                                           d \in SeqsUpTo(DataRows(h), 1) }
               : h \in ValidHeaderRows }
  \cup UNION { { << FirstJobRows[1], FirstJobRows[2], h >> \o d :
                   d \in SeqsUpTo(CoreRows(h), MaxDataRows) } : h \in ValidHeaderRows }

(***************************************************************************)
(* State.                                                                  *)
(***************************************************************************)
VARIABLES
  folder_name,   \* root_dir.name
  fsData,        \* the data folders under root_dir
  fsImages,      \* the images folders under root_dir and their entries
  Workbook,      \* module global: FALSE stands for None
  XLImage,       \* module global: FALSE stands for None
  data_dir, images_dir, job_name, revision, side, line_name,   \* fields of self
  pc,            \* where run() is
  error,         \* the exception run() ended with
  decode_log,    \* _open_csv: the codecs tried so far, and whether each decoded the file
  csv_rows,      \* _open_csv: rows
  feeder_rows,   \* run: feeder_rows
  filtered_rows, \* _build_output_rows: filtered_rows
  aimex,         \* _build_output_rows: aimex
  slot_strings,  \* _build_output_rows: slot_string of each filtered row
  output_rows,   \* run: output_rows
  ws,            \* _write_excel: the worksheet
  saved,         \* the workbook has been written to output_path
  result         \* the ProcessResult run() returned

env  == << folder_name, fsData, fsImages, Workbook, XLImage >>
self == << data_dir, images_dir, job_name, revision, side, line_name >>
data == << decode_log, csv_rows, feeder_rows, filtered_rows, aimex, slot_strings, output_rows >>
vars == << env, self, data, pc, error, ws, saved, result >>

EmptySheet == [title |-> <<>>, info |-> <<>>, header_row |-> 0, header |-> <<>>,
               cells |-> <<>>, heights |-> <<>>, images |-> <<>>]
NoResult == [rows_written |-> -1, images_found |-> -1]

\* one pass of the loop of line 124: the codec, and whether open/read raised no
\* UnicodeError
Attempt(encoding, ok) == [encoding |-> encoding, ok |-> ok]

\* lines 11-26: the imports succeed together, or every name is None
Init ==
  /\ folder_name \in FolderNames
  /\ fsData \in DataFolders
  /\ fsImages \in ImageFolders
  /\ Workbook \in BOOLEAN
  /\ XLImage = Workbook
  /\ data_dir = "DATA" /\ images_dir = "IMAGES"
  /\ job_name = <<>> /\ revision = <<>> /\ side = <<>> /\ line_name = <<>>
  /\ pc = "run"
  /\ error = NoError
  /\ decode_log = <<>>
  /\ csv_rows = <<>> /\ feeder_rows = <<>> /\ filtered_rows = <<>>
  /\ aimex = FALSE /\ slot_strings = <<>> /\ output_rows = <<>>
  /\ ws = EmptySheet
  /\ saved = FALSE
  /\ result = NoResult

Fail(e) == pc' = "failed" /\ error' = e

(***************************************************************************)
(* run, lines 537-562: the root folder, job metadata, DATA and IMAGES.     *)
(***************************************************************************)
\* _resolve_existing_dir: the first candidate that is a directory, "" for None
RECURSIVE ResolveExistingDir(_, _)
ResolveExistingDir(existing, candidate_names) ==
  IF candidate_names = <<>> THEN ""
  ELSE IF Head(candidate_names) \in existing THEN Head(candidate_names)
  ELSE ResolveExistingDir(existing, Tail(candidate_names))

\* a variant of FolderParts that leaves the segments untrimmed
FolderParts_Untrimmed(name) == Split(name, ";")

\* line 542
FolderParts(name) ==
  LET raw == Split(name, ";") IN [i \in DOMAIN raw |-> Strip(raw[i])]

\* lines 537-538
Run_BadRoot ==
  /\ pc = "run"
  /\ Fail(AppError("The selected folder does not exist or is not a valid folder."))
  /\ UNCHANGED << env, self, data, ws, saved, result >>

\* lines 549-560: the folder run() settles on
ResolvedDataDir ==
  LET existing_data == ResolveExistingDir(DOMAIN fsData, DATA_DIR_NAMES)
  IN  IF existing_data # "" THEN existing_data ELSE "DATA"

ResolvedImagesDir ==
  LET existing_images == ResolveExistingDir(DOMAIN fsImages, IMAGES_DIR_NAMES)
  IN  IF existing_images # "" THEN existing_images ELSE "IMAGES"

\* lines 540-546
SeedJobMetadata ==
  LET parts == FolderParts(folder_name)
  IN  IF Len(parts) >= 3
        THEN job_name' = parts[1] /\ revision' = parts[2] /\ side' = parts[3]
        ELSE UNCHANGED << job_name, revision, side >>

\* lines 540-562, ensure_structure creating what is missing
Run_Begin ==
  /\ pc = "run"
  /\ SeedJobMetadata
  /\ data_dir' = ResolvedDataDir
  /\ images_dir' = ResolvedImagesDir
  /\ fsData' = [d \in DOMAIN fsData \cup {ResolvedDataDir} |->
                  IF d \in DOMAIN fsData THEN fsData[d] ELSE FALSE]
  /\ fsImages' = [d \in DOMAIN fsImages \cup {ResolvedImagesDir} |->
                  IF d \in DOMAIN fsImages THEN fsImages[d] ELSE {}]
  /\ pc' = "open_csv"
  /\ UNCHANGED << folder_name, Workbook, XLImage, line_name, error, data, ws, saved, result >>

\* lines 100-107: mkdir raises OSError; with exist_ok=True it raises none for a
\* folder that is already there
Run_MkdirFails ==
  /\ pc = "run"
  /\ ResolvedDataDir \notin DOMAIN fsData \/ ResolvedImagesDir \notin DOMAIN fsImages
  /\ SeedJobMetadata
  /\ data_dir' = ResolvedDataDir
  /\ images_dir' = ResolvedImagesDir
  /\ Fail(AppError("Could not create DATA/IMAGES folders"))
  /\ UNCHANGED << env, line_name, data, ws, saved, result >>

(***************************************************************************)
(* _open_csv, lines 109-177, and _validate_headers, lines 179-184.         *)
(***************************************************************************)
\* _norm, lines 146-147
Norm(s) == RStripChars(Lower(Strip(s)), {":"})

\* a variant of LineNameFrom that falls back to the eighth column only when no
\* label was found
LineNameFrom_LabelOnly(rows, prior) ==
  LET job_headers == [i \in DOMAIN rows[1] |-> Strip(rows[1][i])]
      job_values  == rows[2]
      found == { i \in DOMAIN job_headers : Norm(job_headers[i]) = <<"l","i","n","e">> }
      idx   == IF found = {} THEN 0 ELSE CHOOSE i \in found : \A j \in found : i <= j
  IN  IF idx # 0 /\ idx <= Len(job_values) THEN Strip(job_values[idx])
      ELSE IF idx = 0 /\ Len(job_values) >= 8 THEN Strip(job_values[8])
      ELSE prior

\* lines 143-155: the line name read from the two job rows, prior when neither
\* branch applies
LineNameFrom(rows, prior) ==
  LET job_headers == [i \in DOMAIN rows[1] |-> Strip(rows[1][i])]
      job_values  == rows[2]
      found == { i \in DOMAIN job_headers : Norm(job_headers[i]) = <<"l","i","n","e">> }
      idx   == IF found = {} THEN 0 ELSE CHOOSE i \in found : \A j \in found : i <= j
  IN  IF idx # 0 /\ idx <= Len(job_values) THEN Strip(job_values[idx])
      ELSE IF Len(job_values) >= 8 THEN Strip(job_values[8])
      ELSE prior

\* a variant of HeadersOf that leaves the header cells untrimmed
HeadersOf_Untrimmed(rows) == rows[3]

\* line 158
HeadersOf(rows) == [i \in DOMAIN rows[3] |-> Strip(rows[3][i])]

\* line 180
MissingColumns(headers) ==
  SelectSeq(REQUIRED_FEEDER_COLUMNS, LAMBDA h : h \notin Range(headers))

\* line 164
IsBlankRow(r) == \A i \in DOMAIN r : Strip(r[i]) = <<>>

\* line 166: a dict keeps the last value given for a key
RowDict(headers, r) ==
  [h \in Range(headers) |->
     LET i == CHOOSE k \in DOMAIN headers :
                headers[k] = h /\ \A m \in DOMAIN headers : headers[m] = h => m <= k
     IN  IF i <= Len(r) THEN Strip(r[i]) ELSE <<>>]

\* lines 161-169
ReadRecords(headers, rows) ==
  LET data_rows == SubSeq(rows, 4, Len(rows))
      kept == SelectSeq(data_rows, LAMBDA r : ~IsBlankRow(r))
  IN  [i \in DOMAIN kept |-> RowDict(headers, kept[i])]

\* line 120
OpenCsv_NotFound ==
  /\ pc = "open_csv"
  /\ ~fsData[data_dir]
  /\ Fail(AppError("Required file not found"))
  /\ UNCHANGED << env, self, data, ws, saved, result >>

\* lines 124-172 and 177: both codecs raise UnicodeError, the loop ends and the
\* function returns the empty list
OpenCsv_Undecodable ==
  /\ pc = "open_csv"
  /\ fsData[data_dir]
  /\ decode_log' = << Attempt("utf-8-sig", FALSE), Attempt("latin-1", FALSE) >>
  /\ feeder_rows' = <<>>
  /\ pc' = "build"
  /\ UNCHANGED << env, self, error, csv_rows, filtered_rows, aimex, slot_strings,
                  output_rows, ws, saved, result >>

\* lines 136-169: what the reader does with the rows csv.reader returned
ReadRows(rows) ==
  /\ csv_rows' = rows
  /\ IF Len(rows) < 3
       THEN /\ Fail(AppError("FeederSetup.csv does not have the expected format (too few rows)."))
            /\ UNCHANGED << line_name, feeder_rows >>
       ELSE LET headers == HeadersOf(rows)
                missing == MissingColumns(headers)
            IN  /\ line_name' = LineNameFrom(rows, line_name)
                /\ IF missing # <<>>
                     THEN /\ pc' = "failed"
                          /\ error' = [cls |-> "PolarityAppError",
                                       msg |-> "Required columns are missing in FeederSetup.csv: ",
                                       missing |-> missing]
                          /\ UNCHANGED feeder_rows
                     ELSE /\ feeder_rows' = ReadRecords(headers, rows)
                          /\ pc' = "build"
                          /\ UNCHANGED error
  /\ UNCHANGED << env, data_dir, images_dir, job_name, revision, side,
                  filtered_rows, aimex, slot_strings, output_rows, ws, saved, result >>

\* lines 124-169: the first codec decodes the file and csv.reader returns rows
OpenCsv ==
  /\ pc = "open_csv"
  /\ fsData[data_dir]
  /\ decode_log' = << Attempt("utf-8-sig", TRUE) >>
  /\ \E rows \in Tables : ReadRows(rows)

\* lines 124-172: the first codec raises UnicodeError, the second decodes the
\* file and csv.reader returns rows
OpenCsv_Latin1 ==
  /\ pc = "open_csv"
  /\ fsData[data_dir]
  /\ decode_log' = << Attempt("utf-8-sig", FALSE), Attempt("latin-1", TRUE) >>
  /\ \E rows \in { t \in Tables : Len(t) <= 4 } : ReadRows(rows)

(***************************************************************************)
(* _build_output_rows, lines 235-280, with _detect_aimex, lines 189-208,   *)
(* and _build_slot_string, lines 210-224.                                  *)
(***************************************************************************)
\* row.get(key) or ""
Get(row, key) == IF key \in DOMAIN row THEN row[key] ELSE <<>>

\* lines 244-248
QtyVal(row) ==
  LET qty_str == Strip(Get(row, K_QTY))
  IN  IF qty_str = <<>> THEN 0
      ELSE LET parsed == ParseInt(qty_str) IN IF parsed.ok THEN parsed.val ELSE 0

\* a variant of KeepsRow that keeps positive quantities only
KeepsRow_PositiveOnly(row) == QtyVal(row) > 0

\* line 249
KeepsRow(row) == QtyVal(row) # 0

\* variants of FilterRows: one that takes the first record for a header, one
\* that filters nothing
FilterRows_SkipsFirst(rows) == SelectSeq(Tail(rows), KeepsRow)
FilterRows_KeepAll(rows) == rows

\* lines 242-250
FilterRows(rows) == SelectSeq(rows, KeepsRow)

\* lines 200-205 and 215-220
MapSide(s) ==
  IF s = <<"1">> THEN <<"2">>
  ELSE IF s = <<"0">> THEN <<"1">>
  ELSE s

\* lines 197-208: the loop over rows, from the flag so far
RECURSIVE DetectAimexFrom(_, _)
DetectAimexFrom(rows, flag) ==
  IF rows = <<>> THEN flag
  ELSE LET mapped == MapSide(Strip(Get(Head(rows), K_SideNo)))
       IN  DetectAimexFrom(Tail(rows), IF mapped = <<"2">> THEN TRUE ELSE flag)

\* a variant of DetectAimex that scans the records as read, not as filtered
DetectAimex_Unfiltered(rows) == DetectAimexFrom(feeder_rows, FALSE)

\* lines 189-208
DetectAimex(rows) == DetectAimexFrom(rows, FALSE)

\* lines 210-224
BuildSlotString(row, is_aimex) ==
  LET module      == Strip(Get(row, K_ModuleNumber))
      location    == Strip(Remove(Get(row, K_Location), "'"))
      mapped_side == MapSide(Strip(Get(row, K_SideNo)))
  IN  IF is_aimex /\ mapped_side # <<>>
        THEN StripChars(Concat(<< module, <<"-">>, mapped_side, <<"-">>, location >>), {"-"})
        ELSE StripChars(Concat(<< module, <<"-">>, location >>), {"-"})

\* a variant of BuildOutputRow that emits the slot string as "Slot"
BuildOutputRow_SlotString(row, slot_string) ==
  [c \in Range(OUTPUT_COLUMNS) |->
     CASE c = "Modulo"        -> Strip(Get(row, K_ModuleNumber))
       [] c = "Slot"          -> slot_string
       [] c = "Part Number"   -> Strip(Get(row, K_PartNumber))
       [] c = "Package"       -> Strip(Get(row, K_PackageName))
       [] c = "Name of shape" -> Strip(Get(row, K_PartShapeName))
       [] c = "Coments or presentations changes" -> Strip(Get(row, K_PartComment))
       [] OTHER               -> <<>>]

\* lines 259-277: the output row of one filtered row; slot_string is the value
\* line 264 computes for it
BuildOutputRow(row, slot_string) ==
  [c \in Range(OUTPUT_COLUMNS) |->
     CASE c = "Modulo"        -> Strip(Get(row, K_ModuleNumber))
       [] c = "Slot"          -> Strip(Get(row, K_Location))
       [] c = "Part Number"   -> Strip(Get(row, K_PartNumber))
       [] c = "Package"       -> Strip(Get(row, K_PackageName))
       [] c = "Name of shape" -> Strip(Get(row, K_PartShapeName))
       [] c = "Coments or presentations changes" -> Strip(Get(row, K_PartComment))
       [] OTHER               -> <<>>]

\* lines 238-239
BuildOutputRows_NoData ==
  /\ pc = "build"
  /\ feeder_rows = <<>>
  /\ Fail(AppError("FeederSetup.csv does not contain data."))
  /\ UNCHANGED << env, self, data, ws, saved, result >>

\* lines 241-253
BuildOutputRows_NothingLeft ==
  /\ pc = "build"
  /\ feeder_rows # <<>>
  /\ FilterRows(feeder_rows) = <<>>
  /\ filtered_rows' = <<>>
  /\ Fail(AppError("After filtering QTY=0 there are no rows left to process."))
  /\ UNCHANGED << env, self, decode_log, csv_rows, feeder_rows, aimex, slot_strings,
                  output_rows,
                  ws, saved, result >>

\* lines 241-280
BuildOutputRows ==
  /\ pc = "build"
  /\ feeder_rows # <<>>
  /\ LET filtered == FilterRows(feeder_rows)
         flag     == DetectAimex(filtered)
         slots    == [i \in DOMAIN filtered |-> BuildSlotString(filtered[i], flag)]
     IN  /\ filtered # <<>>
         /\ filtered_rows' = filtered
         /\ aimex' = flag
         /\ slot_strings' = slots
         /\ output_rows' = [i \in DOMAIN filtered |-> BuildOutputRow(filtered[i], slots[i])]
  /\ pc' = "write"
  /\ UNCHANGED << env, self, error, decode_log, csv_rows, feeder_rows, ws, saved, result >>

(***************************************************************************)
(* _write_excel, lines 314-531.  The worksheet is modelled by its title,   *)
(* the form block, the table header, the data cells with their fill, the   *)
(* row heights the code sets and the images it adds; fonts, borders,       *)
(* widths, the pixel offsets of an image and the print setup are left out. *)
(***************************************************************************)
start_row == 3
info_labels == << "Model", "Line", "Revision", "Machine Programmer", "Quality", "Fecha" >>
\* line 377
header_row == start_row + Len(info_labels) + 1
\* line 384
data_start_row == header_row + 1
\* line 431
col_idx == 5
\* line 438
MinImageRowHeight == 70

\* lines 301-312: the name of the image file of a part number, <<>> for None
RECURSIVE FirstExisting(_, _, _)
FirstExisting(entries, part_number, exts) ==
  IF exts = <<>> THEN <<>>
  ELSE IF File(part_number \o Head(exts)) \in entries THEN part_number \o Head(exts)
  ELSE FirstExisting(entries, part_number, Tail(exts))

FindImageForPart(part_number) ==
  LET pn == Strip(part_number)
  IN  IF pn = <<>> \/ images_dir \notin DOMAIN fsImages THEN <<>>
      ELSE FirstExisting(fsImages[images_dir], pn, IMAGE_EXTENSIONS)

\* lines 226-233: one stem per regular file of the images folder
CollectImageStemsCount ==
  IF images_dir \notin DOMAIN fsImages THEN 0
  ELSE Cardinality({ p \in fsImages[images_dir] : p.isfile })

\* a variant of IsPassive without the exclusion of connectors
IsPassive_NoConExclusion(shape) ==
  LET shape_name == Upper(Strip(shape))
      at == IndexOf("_", shape_name)
      after_underscore == SubSeq(shape_name, at + 1, Len(shape_name))
  IN  /\ at # 0
      /\ after_underscore # <<>>
      /\ after_underscore[1] \in {"C", "R"}

\* lines 387-395
IsPassive(shape) ==
  LET shape_name == Upper(Strip(shape))
      at == IndexOf("_", shape_name)
      after_underscore == SubSeq(shape_name, at + 1, Len(shape_name))
  IN  /\ at # 0
      /\ after_underscore # <<>>
      /\ ~StartsWith(after_underscore, <<"C","O","N">>)
      /\ after_underscore[1] \in {"C", "R"}

\* line 403
FilledColumns == { "Name of shape", "Coments or presentations changes" }

\* lines 396-404: the cells of one data row
RowCells(row) ==
  [c \in DOMAIN OUTPUT_COLUMNS |->
     [value |-> row[OUTPUT_COLUMNS[c]],
      fill  |-> IsPassive(row["Name of shape"]) /\ OUTPUT_COLUMNS[c] \in FilledColumns]]

\* lines 363-372: the values of the form block; a cell without a value stays empty
InfoValues ==
  [l \in Range(info_labels) |->
     CASE l = "Model"    -> job_name
       [] l = "Line"     -> IF line_name # <<>> THEN line_name ELSE side
       [] l = "Revision" -> revision
       [] OTHER          -> <<>>]

\* lines 424-465: the images added, in row order
RECURSIVE ImagesFor(_, _)
ImagesFor(rows, offset) ==
  IF rows = <<>> THEN <<>>
  ELSE LET image_path == FindImageForPart(Head(rows)["Part Number"])
           rest == ImagesFor(Tail(rows), offset + 1)
       IN  IF image_path = <<>> THEN rest
           ELSE << [file |-> image_path, row |-> data_start_row + offset, col |-> col_idx] >> \o rest

\* lines 318-465
Layout(rows) ==
  LET images == ImagesFor(rows, 0)
  IN  [title      |-> "Polarity Check",
       info       |-> [i \in DOMAIN info_labels |->
                         [row |-> start_row + i - 1, label |-> info_labels[i],
                          value |-> InfoValues[info_labels[i]]]],
       header_row |-> header_row,
       header     |-> OUTPUT_COLUMNS,
       cells      |-> [r \in data_start_row .. (data_start_row + Len(rows) - 1) |->
                         RowCells(rows[r - data_start_row + 1])],
       heights    |-> [r \in { images[i].row : i \in DOMAIN images } |-> MinImageRowHeight],
       images     |-> images]

\* lines 285-290
WriteExcel_NoWorkbook ==
  /\ pc = "write"
  /\ ~Workbook
  /\ Fail(AppError("The 'openpyxl' library is not installed."))
  /\ UNCHANGED << env, self, data, ws, saved, result >>

\* line 430: XLImage(path) raises for a file it cannot load
WriteExcel_ImageFails ==
  /\ pc = "write"
  /\ Workbook
  /\ output_rows # <<>> => XLImage
  /\ ImagesFor(output_rows, 0) # <<>>
  /\ Fail(OtherError("XLImage"))
  /\ UNCHANGED << env, self, data, ws, saved, result >>

\* lines 315-519: the document is built; lines 422-423 raise when there are rows
\* and XLImage is None
WriteExcel_Layout ==
  /\ pc = "write"
  /\ Workbook
  /\ IF output_rows # <<>> /\ ~XLImage
       THEN /\ Fail(AppError("Pillow is required to insert images into Excel."))
            /\ UNCHANGED ws
       ELSE /\ ws' = Layout(output_rows)
            /\ pc' = "save"
            /\ UNCHANGED error
  /\ UNCHANGED << env, self, data, saved, result >>

\* lines 525-526
WriteExcel_Save ==
  /\ pc = "save"
  /\ saved' = TRUE
  /\ pc' = "collect"
  /\ UNCHANGED << env, self, data, error, ws, result >>

\* lines 527-528: wb.save raises OSError
WriteExcel_SaveFails ==
  /\ pc = "save"
  /\ Fail(AppError("The Excel file could not be saved"))
  /\ UNCHANGED << env, self, data, ws, saved, result >>

\* lines 530-531
WriteExcel_Return ==
  /\ pc = "collect"
  /\ result' = [rows_written |-> Len(output_rows), images_found |-> CollectImageStemsCount]
  /\ pc' = "done"
  /\ UNCHANGED << env, self, data, error, ws, saved >>

\* line 230: iterdir raises OSError for a folder that cannot be listed
WriteExcel_ListingFails ==
  /\ pc = "collect"
  /\ images_dir \in DOMAIN fsImages
  /\ Fail(OtherError("OSError"))
  /\ UNCHANGED << env, self, data, ws, saved, result >>

(***************************************************************************)
(* The run.                                                                *)
(***************************************************************************)
Next ==
  \/ Run_BadRoot
  \/ Run_Begin
  \/ Run_MkdirFails
  \/ OpenCsv_NotFound
  \/ OpenCsv_Undecodable
  \/ OpenCsv
  \/ OpenCsv_Latin1
  \/ BuildOutputRows_NoData
  \/ BuildOutputRows_NothingLeft
  \/ BuildOutputRows
  \/ WriteExcel_NoWorkbook
  \/ WriteExcel_ImageFails
  \/ WriteExcel_Layout
  \/ WriteExcel_Save
  \/ WriteExcel_SaveFails
  \/ WriteExcel_Return
  \/ WriteExcel_ListingFails

Spec == Init /\ [][Next]_vars

TypeOK ==
  /\ pc \in {"run", "open_csv", "build", "write", "save", "collect", "done", "failed"}
  /\ error.cls \in {"none", "PolarityAppError", "Exception"}
  /\ (pc = "failed") <=> (error # NoError)
  /\ (pc = "done") <=> (result # NoResult)
  /\ aimex \in BOOLEAN /\ saved \in BOOLEAN
  /\ Len(decode_log) <= 2
  /\ \A i \in DOMAIN decode_log : decode_log[i] \in [encoding : {"utf-8-sig", "latin-1"}, ok : BOOLEAN]

(***************************************************************************)
(* The normalizer and the layout on small tables taken exhaustively: every *)
(* QTY cell and every shape name up to a length over a small alphabet, and *)
(* every pair of records over a set of SideNo and QTY cells.  The initial  *)
(* states are the states of the run after _open_csv has read such a table. *)
(***************************************************************************)
QtyAlphabet   == { "0", "1", "3", "-", "+", "_", " ", "x" }
ShapeAlphabet == { "C", "O", "N", "_", "r" }
SideCells     == { <<>>, <<"0">>, <<"1">>, <<"2">>, <<"3">>, <<" ","1">> }

\* a data row under REQUIRED_FEEDER_COLUMNS
UnitRow(sideNo, shape, qty) ==
  << <<"1">>, sideNo, <<"'","3">>, <<"P","1">>, <<"c">>, <<"0","4","0","2">>, shape, <<"F">>, <<"8">>, <<"4">>, qty >>

\* the data sections: one record with a QTY cell of length up to maxQty, one
\* record with a shape name of length up to maxShape or one of three given
\* names, two records over SideCells with QTY "0" or "1"
UnitDataSections(maxQty, maxShape) ==
  { << UnitRow(<<"0">>, <<"R","C","_","R","0","4","0","2">>, q) >> : q \in SeqsUpTo(QtyAlphabet, maxQty) }
  \cup { << UnitRow(<<"0">>, s, <<"1">>) >> :
           s \in SeqsUpTo(ShapeAlphabet, maxShape) \cup { <<"R","C","_","R","0","4","0","2">>, <<"S","O","I","C","_","C","O","N","8">>, <<"A","B","C">> } }
  \cup { << UnitRow(s1, <<"A","B","C">>, q1), UnitRow(s2, <<"A","B","C">>, q2) >> :
           s1 \in SideCells, s2 \in SideCells, q1 \in { <<"0">>, <<"1">> }, q2 \in { <<"0">>, <<"1">> } }

InitUnit ==
  /\ folder_name = <<"l","i","n","e","7">>
  /\ fsData = [d \in {"DATA"} |-> TRUE]
  /\ fsImages = [d \in {"IMAGES"} |-> { File(<<"P","1",".","p","n","g">>), File(<<"P","1",".","j","p","g">>) }]
  /\ Workbook = TRUE /\ XLImage = TRUE
  /\ data_dir = "DATA" /\ images_dir = "IMAGES"
  /\ job_name = <<>> /\ revision = <<>> /\ side = <<>>
  /\ decode_log = << Attempt("utf-8-sig", TRUE) >>
  /\ \E d \in UnitDataSections(MaxQtyLen, MaxShapeLen) :
       csv_rows = << FirstJobRows[1], FirstJobRows[2], REQUIRED_FEEDER_COLUMNS >> \o d
  /\ line_name = LineNameFrom(csv_rows, <<>>)
  /\ feeder_rows = ReadRecords(HeadersOf(csv_rows), csv_rows)
  /\ pc = "build"
  /\ error = NoError
  /\ filtered_rows = <<>> /\ aimex = FALSE /\ slot_strings = <<>> /\ output_rows = <<>>
  /\ ws = EmptySheet
  /\ saved = FALSE
  /\ result = NoResult

NextUnit ==
  \/ BuildOutputRows_NothingLeft
  \/ BuildOutputRows
  \/ WriteExcel_Layout

SpecUnit == InitUnit /\ [][NextUnit]_vars

(***************************************************************************)
(* The job metadata alone: run() on every short folder name, and _open_csv *)
(* on a family of job rows above a valid header row with no data rows.     *)
(***************************************************************************)
MaxFolderLen == 5

FolderAlphabet == { "J", ";", " " }

\* the cells of the label row that are, or look like, the line label
LineLabelCells == { <<" ","L","i","n","e",":"," ">>, <<"L","I","N","E">>, <<"l","i","n","e",":",":">>, <<"l","i","n","e"," ",":">>, <<"L","i","n","e","s">> }

ColumnLetters == << "A", "B", "C", "D", "E", "F", "G", "H", "I" >>

\* a label row of n cells with the cell c at column pos (none when pos > n)
LabelRow(n, pos, c) == [i \in 1..n |-> IF i = pos THEN c ELSE <<"J","o","b">>]

\* a value row of m cells, each padded: " A2 ", " B2 ", ...
ValueRow(m) == [i \in 1..m |-> << " ", ColumnLetters[i], "2", " " >>]

\* rows 1 and 2 of the export: the label at column A, B or I or nowhere, above
\* value rows that end before, at and after columns B, H and I
MetaJobRows ==
  { << LabelRow(n, pos, c), ValueRow(m) >> :
      n \in {2, 9}, pos \in {1, 2, 9}, c \in LineLabelCells, m \in {0, 1, 8, 9} }
  \cup { << << <<"l","i","n","e",":">>, <<"L","i","n","e">> >>, ValueRow(2) >> }

InitMeta ==
  /\ folder_name \in SeqsUpTo(FolderAlphabet, MaxFolderLen)
  /\ fsData = [d \in {"DATA"} |-> TRUE]
  /\ fsImages = [d \in {"IMAGES"} |-> {}]
  /\ Workbook = TRUE /\ XLImage = TRUE
  /\ data_dir = "DATA" /\ images_dir = "IMAGES"
  /\ job_name = <<>> /\ revision = <<>> /\ side = <<>> /\ line_name = <<>>
  /\ pc = "run"
  /\ error = NoError
  /\ decode_log = <<>>
  /\ csv_rows = <<>> /\ feeder_rows = <<>> /\ filtered_rows = <<>>
  /\ aimex = FALSE /\ slot_strings = <<>> /\ output_rows = <<>>
  /\ ws = EmptySheet
  /\ saved = FALSE
  /\ result = NoResult

\* lines 124-169 on the job rows
OpenCsv_JobRows ==
  /\ pc = "open_csv"
  /\ fsData[data_dir]
  /\ decode_log' = << Attempt("utf-8-sig", TRUE) >>
  /\ \E j \in MetaJobRows : ReadRows(<< j[1], j[2], REQUIRED_FEEDER_COLUMNS >>)

NextMeta ==
  \/ Run_Begin
  \/ OpenCsv_JobRows

SpecMeta == InitMeta /\ [][NextMeta]_vars

(***************************************************************************)
(* Properties.                                                             *)
(***************************************************************************)
Built == pc \in {"save", "collect", "done"}
Normalized == pc \in {"write", "save", "collect", "done"}

\* a decimal integer literal, as int() reads it, with a digit other than 0:
\* blanks around it, an optional sign, digits with single underscores between
NonZeroLiteral(s) ==
  LET t == Strip(s)
      body == IF t # <<>> /\ t[1] \in {"+", "-"} THEN SubSeq(t, 2, Len(t)) ELSE t
  IN  /\ body # <<>>
      /\ \A i \in DOMAIN body :
           \/ body[i] \in Range(Digits)
           \/ /\ body[i] = "_"
              /\ 1 < i /\ i < Len(body)
              /\ body[i-1] \in Range(Digits) /\ body[i+1] \in Range(Digits)
      /\ \E i \in DOMAIN body : body[i] \in Range(Digits) \ {"0"}

\* the records of the source that survive the quantity filter, by position
Survivors == { i \in DOMAIN feeder_rows : NonZeroLiteral(feeder_rows[i][K_QTY]) }
Rank(i) == Cardinality({ j \in Survivors : j <= i })

\* the source column each report column takes its text from (none for the two
\* image columns)
ColumnSource(c) ==
  CASE c = 1 -> K_ModuleNumber
    [] c = 2 -> K_Location
    [] c = 3 -> K_PartNumber
    [] c = 4 -> K_PackageName
    [] c = 7 -> K_PartShapeName
    [] c = 8 -> K_PartComment
    [] OTHER -> <<>>

ReportText(record, c) == IF ColumnSource(c) = <<>> THEN <<>> ELSE record[ColumnSource(c)]

\* C1: once the document is built, its data rows are exactly the source records
\* with a non-zero QTY, each once and in source order: the k-th surviving record
\* is in the k-th sheet row below the table header row, no other sheet row holds
\* data, and rows_written is the number of surviving records.
C1_SurvivorsInOrder ==
  /\ Built =>
       /\ DOMAIN ws.cells = (ws.header_row + 1) .. (ws.header_row + Cardinality(Survivors))
       /\ ws.header_row = Len(info_labels) + 4
       /\ \A i \in Survivors : \A c \in 1..8 :
            ws.cells[ws.header_row + Rank(i)][c].value = ReportText(feeder_rows[i], c)
  /\ pc = "done" => result.rows_written = Cardinality(Survivors)

\* a run that dropped the first of three records and wrote the other two
C1_Witness ==
  /\ pc = "done"
  /\ Len(feeder_rows) = 3
  /\ Survivors = {2, 3}
  /\ feeder_rows[2] # feeder_rows[3]
  /\ result.rows_written = 2

\* C2: the quantity filter keeps a record exactly when its QTY is a non-zero
\* integer literal: "0", the empty or blank cell and text that is no integer
\* are dropped, "-1" and "3" are kept.
C2_FilterKeepsNonZero ==
  (pc # "build") =>
    /\ filtered_rows = SelectSeq(feeder_rows, LAMBDA r : NonZeroLiteral(r[K_QTY]))
    /\ \A i \in DOMAIN feeder_rows :
         /\ feeder_rows[i][K_QTY] \in { <<"0">>, <<>>, <<"x">>, <<"-","0">>, <<"0","0">>, <<"1","x">>, <<"-","-","1">> }
              => \A k \in DOMAIN filtered_rows : filtered_rows[k] # feeder_rows[i]
         /\ feeder_rows[i][K_QTY] \in { <<"-","1">>, <<"3">>, <<"+","3">>, <<"1","_","0">>, <<"0","1">> }
              => \E k \in DOMAIN filtered_rows : filtered_rows[k] = feeder_rows[i]

\* the record with QTY "-1" went through the filter
C2_Witness ==
  /\ pc = "write"
  /\ feeder_rows[1][K_QTY] = <<"-","1">>
  /\ filtered_rows = feeder_rows

\* the required columns that the trimmed header row does not hold
AbsentColumns ==
  Range(REQUIRED_FEEDER_COLUMNS) \ { Strip(csv_rows[3][i]) : i \in DOMAIN csv_rows[3] }

MissingColumnsMsg == "Required columns are missing in FeederSetup.csv: "

\* C3: when the header row (row index 2, cells trimmed) lacks required columns,
\* the run has failed with the missing-columns error and the error names exactly
\* the absent required columns, each once; when all eleven are present there is
\* no missing-columns error.
C3_MissingColumnsNamed ==
  Len(csv_rows) >= 3 =>
    IF AbsentColumns # {}
      THEN /\ pc = "failed"
           /\ error.cls = "PolarityAppError"
           /\ error.msg = MissingColumnsMsg
           /\ Range(error.missing) = AbsentColumns
           /\ Len(error.missing) = Cardinality(AbsentColumns)
      ELSE error.msg # MissingColumnsMsg

\* the header row without SideNo and TapeWidth was rejected
C3_Witness ==
  /\ pc = "failed"
  /\ error.msg = MissingColumnsMsg
  /\ error.missing = << K_SideNo, K_TapeWidth >>

\* C4: a run that ended in a failure has written no output file.
C4_NoFileOnFailure == pc = "failed" => ~saved

EmptyDatasetMsgs ==
  { "FeederSetup.csv does not contain data.",
    "After filtering QTY=0 there are no rows left to process." }

\* C5: with no record left after the quantity filter the normalizer fails with
\* the empty-dataset error and the layout stage is never entered; with a record
\* left the normalizer does not fail.
C5_EmptyDatasetFails ==
  /\ [][pc = "build" =>
          IF Survivors = {}
            THEN /\ pc' = "failed"
                 /\ error'.cls = "PolarityAppError"
                 /\ error'.msg \in EmptyDatasetMsgs
            ELSE pc' = "write" /\ error' = NoError]_vars
  /\ [](Normalized => Survivors # {})
  /\ [](error.msg \in EmptyDatasetMsgs => Survivors = {})

\* two records were read, both with QTY reading 0, and the normalizer failed
C5_Witness ==
  /\ pc = "failed"
  /\ error.msg = "After filtering QTY=0 there are no rows left to process."
  /\ Len(feeder_rows) = 2
  /\ ws = EmptySheet

\* the side remapping as the specification states it
RemapClaimed(s) ==
  CASE s = <<"1">> -> <<"2">>
    [] s = <<"0">> -> <<"1">>
    [] OTHER    -> s

\* C6: SideNo "1" is remapped to "2", "0" to "1" and any other value to itself,
\* and the dataset is alternate-type (AIMEX) exactly when a record that survived
\* the quantity filter has the remapped side "2"; a dropped record has no say.
\* The remapped side is the middle part of the slot string of an AIMEX dataset.
C6_AimexFromFiltered ==
  Normalized =>
    /\ aimex <=> \E i \in Survivors : RemapClaimed(feeder_rows[i][K_SideNo]) = <<"2">>
    /\ aimex => \A k \in DOMAIN filtered_rows :
         filtered_rows[k][K_SideNo] # <<>> =>
           slot_strings[k] =
             StripChars(Concat(<< filtered_rows[k][K_ModuleNumber], <<"-">>,
                                  RemapClaimed(filtered_rows[k][K_SideNo]), <<"-">>,
                                  Remove(filtered_rows[k][K_Location], "'") >>), {"-"})

\* a dropped record with SideNo "1" and a kept one with SideNo "0": not AIMEX
C6_Witness ==
  /\ pc = "write"
  /\ Len(feeder_rows) = 2
  /\ feeder_rows[1][K_SideNo] = <<"1">> /\ 1 \notin Survivors
  /\ feeder_rows[2][K_SideNo] = <<"0">> /\ 2 \in Survivors
  /\ ~aimex

\* the records with every SideNo emptied
SideNoBlanked(rows) == [i \in DOMAIN rows |-> [rows[i] EXCEPT ![K_SideNo] = <<>>]]

\* the report rows the normalizer makes of a record sequence
ReportRowsOf(rows) ==
  LET filtered == FilterRows(rows)
      flag     == DetectAimex(filtered)
  IN  [i \in DOMAIN filtered |->
         BuildOutputRow(filtered[i], BuildSlotString(filtered[i], flag))]

\* C7: in every report row "Slot" is the trimmed Location and "Modulo" the
\* module value of its record, and the report rows and the data cells are those
\* of the same dataset with every SideNo emptied: the slot string, the SideNo
\* values and the AIMEX flag change no emitted column.
C7_SlotIsLocation ==
  /\ Normalized =>
       /\ \A k \in DOMAIN output_rows :
            /\ output_rows[k]["Slot"] = Strip(filtered_rows[k][K_Location])
            /\ output_rows[k]["Modulo"] = filtered_rows[k][K_ModuleNumber]
       /\ output_rows = ReportRowsOf(SideNoBlanked(feeder_rows))
  /\ Built => ws.cells = Layout(ReportRowsOf(SideNoBlanked(feeder_rows))).cells

\* an AIMEX dataset whose slot string differs from the Slot it emitted, the
\* Location's quote still in the Slot
C7_Witness ==
  /\ pc = "done"
  /\ aimex
  /\ \E k \in DOMAIN output_rows :
       /\ slot_strings[k] # output_rows[k]["Slot"]
       /\ IndexOf("'", output_rows[k]["Slot"]) # 0
       /\ ws.cells[ws.header_row + k][2].value = output_rows[k]["Slot"]

\* passive as the specification states it: the upper-cased shape name has an
\* underscore, what follows the first one starts with "C" or "R" and not "CON"
PassiveClaimed(shape) ==
  LET u == Upper(shape)
  IN  \E i \in DOMAIN u :
        /\ u[i] = "_"
        /\ \A j \in 1..(i - 1) : u[j] # "_"
        /\ i < Len(u)
        /\ u[i + 1] \in {"C", "R"}
        /\ ~(i + 3 <= Len(u) /\ u[i + 1] = "C" /\ u[i + 2] = "O" /\ u[i + 3] = "N")

\* C8: a data cell has the fill exactly when its row is passive and its column
\* is "Name of shape" or the comment column; "RC_R0402" is passive, "SOIC_CON8"
\* and "ABC" are not.
C8_PassiveFill ==
  Built =>
    /\ ws.header[7] = "Name of shape"
    /\ ws.header[8] = "Coments or presentations changes"
    /\ \A r \in DOMAIN ws.cells :
         /\ \A c \in 1..8 :
              ws.cells[r][c].fill <=> (c \in {7, 8} /\ PassiveClaimed(ws.cells[r][7].value))
         /\ ws.cells[r][7].value = <<"R","C","_","R","0","4","0","2">> => ws.cells[r][7].fill
         /\ ws.cells[r][7].value \in { <<"S","O","I","C","_","C","O","N","8">>, <<"A","B","C">> } => ~ws.cells[r][7].fill

\* the row of shape "RC_R0402" is filled in its shape and comment cells only
C8_Witness ==
  /\ pc = "save"
  /\ \E r \in DOMAIN ws.cells :
       /\ ws.cells[r][7].value = <<"R","C","_","R","0","4","0","2">>
       /\ ws.cells[r][7].fill /\ ws.cells[r][8].fill
       /\ ~ws.cells[r][1].fill

\* a regular file whose suffix is one of the accepted image extensions
HasImageExtension(name) ==
  \E e \in { <<".","b","m","p">>, <<".","p","n","g">>, <<".","j","p","g">>, <<".","j","p","e","g">> } :
    Len(name) > Len(e) /\ SubSeq(name, Len(name) - Len(e) + 1, Len(name)) = e

ImageFilesPresent ==
  { p \in fsImages[images_dir] : p.isfile /\ HasImageExtension(p.name) }

\* C9: on a successful run images_found is the number of image files (files
\* with an accepted image extension) in the resolved images folder, and with an
\* empty images folder it is 0 and no image is embedded.
C9_ImagesFoundCountsImages ==
  pc = "done" =>
    /\ result.images_found = Cardinality(ImageFilesPresent)
    /\ fsImages[images_dir] = {} => result.images_found = 0 /\ ws.images = <<>>

\* the accepted extensions in the priority the specification gives
ClaimedPriority == << <<".","b","m","p">>, <<".","p","n","g">>, <<".","j","p","g">>, <<".","j","p","e","g">> >>

\* C10: the image of a report row is the file <part number><extension> of the
\* images folder with the first extension of .bmp, .png, .jpg, .jpeg for which
\* such a file exists; a row with an empty part number or without such a file
\* has no image; a row has at most one image, in the "Program's Polarities"
\* column.
C10_ImageByPriority ==
  Built =>
    /\ \A i \in DOMAIN ws.images : ws.images[i].row \in DOMAIN ws.cells
    /\ \A r \in DOMAIN ws.cells :
         LET pn   == ws.cells[r][3].value
             imgs == { i \in DOMAIN ws.images : ws.images[i].row = r }
             have == { e \in 1..4 : File(pn \o ClaimedPriority[e]) \in fsImages[images_dir] }
         IN  /\ Cardinality(imgs) <= 1
             /\ IF pn = <<>> \/ have = {}
                  THEN imgs = {}
                  ELSE \E i \in imgs :
                         /\ ws.images[i].file =
                              pn \o ClaimedPriority[CHOOSE e \in have : \A f \in have : e <= f]
                         /\ ws.header[ws.images[i].col] = "Program's Polarities"

\* P1.png is embedded although P1.jpg exists too, and a row without a part
\* number has no image
C10_Witness ==
  /\ pc = "done"
  /\ File(<<"P","1",".","j","p","g">>) \in fsImages[images_dir]
  /\ \E i \in DOMAIN ws.images : ws.images[i].file = <<"P","1",".","p","n","g">>
  /\ \E r \in DOMAIN ws.cells :
       ws.cells[r][3].value = <<>> /\ \A i \in DOMAIN ws.images : ws.images[i].row # r

(***************************************************************************)
(* Job metadata from the root folder's name.                               *)
(***************************************************************************)
SemicolonsIn(name) == { i \in DOMAIN name : name[i] = ";" }

SegmentCount(name) == Cardinality(SemicolonsIn(name)) + 1

\* the position of the k-th semicolon of name; 0 before the first segment and
\* Len(name) + 1 after the last
SegmentEdge(name, k) ==
  IF k = 0 THEN 0
  ELSE IF k > Cardinality(SemicolonsIn(name)) THEN Len(name) + 1
  ELSE CHOOSE i \in SemicolonsIn(name) :
         Cardinality({ j \in SemicolonsIn(name) : j <= i }) = k

\* the k-th segment of name, whitespace-trimmed
Segment(name, k) ==
  Strip(SubSeq(name, SegmentEdge(name, k - 1) + 1, SegmentEdge(name, k) - 1))

\* C11: once run() has read the root folder's name, job name, revision and side
\* are the first, second and third semicolon-separated segment of the name,
\* each whitespace-trimmed, when the name has at least 3 segments, and all three
\* are empty when it has fewer.
C11_JobMetadataFromFolderName ==
  pc # "run" =>
    IF SegmentCount(folder_name) >= 3
      THEN /\ job_name = Segment(folder_name, 1)
           /\ revision = Segment(folder_name, 2)
           /\ side = Segment(folder_name, 3)
      ELSE job_name = <<>> /\ revision = <<>> /\ side = <<>>

\* a padded name of three segments has been read: job name and side are set,
\* the revision is the empty middle segment
C11_Witness ==
  /\ pc = "open_csv"
  /\ folder_name = <<" ","J",";",";","J">>
  /\ job_name = <<"J">> /\ revision = <<>> /\ side = <<"J">>

(***************************************************************************)
(* The codecs of the source reader.                                        *)
(***************************************************************************)
EncodingErrorMsg == "FeederSetup.csv could not be read due to encoding problems (UTF-8/Latin-1)."

\* C12: the reader tries the UTF-8-with-signature codec first and Latin-1 only
\* after the first failed to decode; when both fail to decode, the run has
\* failed with the encoding error (the reader has returned no record sequence,
\* and the error is no other one).
C12_EncodingErrorWhenBothFail ==
  /\ decode_log # <<>> => decode_log[1].encoding = "utf-8-sig"
  /\ Len(decode_log) >= 2 =>
       /\ ~decode_log[1].ok
       /\ Len(decode_log) = 2
       /\ decode_log[2].encoding = "latin-1"
  /\ (decode_log # <<>> /\ \A i \in DOMAIN decode_log : ~decode_log[i].ok) =>
       pc = "failed" /\ error = AppError(EncodingErrorMsg)

(***************************************************************************)
(* The line name.                                                          *)
(***************************************************************************)
\* the reader has been through the job rows
JobRowsRead == pc \notin {"run", "open_csv"} /\ Len(csv_rows) >= 3

\* a cell that reads "line" once trimmed, lower-cased and freed of its trailing
\* colons
IsLineLabel(c) ==
  LET t == Lower(Strip(c))
  IN  /\ Len(t) >= 4
      /\ SubSeq(t, 1, 4) = <<"l","i","n","e">>
      /\ \A i \in 5..Len(t) : t[i] = ":"

LabelColumns == { i \in DOMAIN csv_rows[1] : IsLineLabel(csv_rows[1][i]) }

FirstLabelColumn == CHOOSE i \in LabelColumns : \A j \in LabelColumns : i <= j

\* C13, as stated: with a line label in the label row the line name is the
\* trimmed value of row 1 in the column of the label; the eighth column of row 1
\* is used only when the label row has no line label and row 1 has at least
\* eight columns; otherwise the line name stays as it was (empty); the step
\* fails no run.
C13_FallbackOnlyWithoutLabel ==
  JobRowsRead =>
    /\ error = NoError
    /\ line_name =
         IF LabelColumns # {}
           THEN IF FirstLabelColumn <= Len(csv_rows[2])
                  THEN Strip(csv_rows[2][FirstLabelColumn])
                  ELSE <<>>
           ELSE IF Len(csv_rows[2]) >= 8 THEN Strip(csv_rows[2][8])
           ELSE <<>>

\* C13, amended: the line name is the trimmed value of row 1 in the column of
\* the first line label when row 1 has that column; failing that (no line
\* label, or row 1 ends before its column) it is the trimmed eighth cell of
\* row 1 when row 1 has at least eight columns; otherwise it stays as it was
\* (empty); the step fails no run.
C13_LineNameFromJobRows ==
  JobRowsRead =>
    /\ error = NoError
    /\ line_name =
         IF LabelColumns # {} /\ FirstLabelColumn <= Len(csv_rows[2])
           THEN Strip(csv_rows[2][FirstLabelColumn])
         ELSE IF Len(csv_rows[2]) >= 8 THEN Strip(csv_rows[2][8])
         ELSE <<>>

\* the line label stands in the ninth column over a value row of eight cells,
\* and the line name is the eighth cell
C13_Witness ==
  /\ pc = "build"
  /\ 9 \in LabelColumns
  /\ Len(csv_rows[2]) = 8
  /\ line_name = <<"H","2">>

(***************************************************************************)
(* Missing image support.                                                  *)
(***************************************************************************)
MissingImageSupportMsg == "Pillow is required to insert images into Excel."

\* a report row whose part number names an image file of the images folder
RowNeedsImage ==
  \E i \in DOMAIN output_rows :
    LET pn == output_rows[i]["Part Number"]
    IN  /\ pn # <<>>
        /\ images_dir \in DOMAIN fsImages
        /\ \E e \in DOMAIN ClaimedPriority :
             File(pn \o ClaimedPriority[e]) \in fsImages[images_dir]

\* C14: when XLImage is missing, a run that got as far as the report rows has
\* failed with the missing-image-support error exactly when one of the report
\* rows has a matching image file; with no matching image file the missing
\* XLImage has not raised that error.
C14_ImageSupportNeededOnlyForImages ==
  (~XLImage /\ output_rows # <<>> /\ pc \in {"failed", "done"}) =>
    ((pc = "failed" /\ error = AppError(MissingImageSupportMsg)) <=> RowNeedsImage)
=============================================================================
